---- MODULE Spec2Model ----
(***************************************************************************)
(* Model of the hook tailer pipeline of eden/mononoke/hook_tailer/tailer.rs *)
(*                                                                         *)
(*   stream.try_filter(..).inspect_ok(..).map(..).buffered(concurrency)    *)
(*         .try_filter_map(..)                                             *)
(*                                                                         *)
(* The consumer polls the result stream; a poll first fills the window of  *)
(* `buffered` from the source (through take, try_filter, inspect_ok and    *)
(* map), then polls the futures of the window in ready-to-run order and    *)
(* returns the output of the oldest slot when it is there.  The spawned    *)
(* run_hooks_for_changeset tasks run on the worker pool, one step (load,   *)
(* hooks) at a time, concurrently with the polls.                          *)
(***************************************************************************)
EXTENDS Integers, Sequences, FiniteSets, TLC

\* Longest source sequence (explicit list, or ancestor traversal).
MaxLen == 3
\* Largest value of `concurrency`.
MaxConc == 2
\* The values of `log_interval`: zero, every changeset, every other one.
LogIntervals == {0, 1, 2}

\* The ChangesetIds an explicit list is made of, and the one of them that
\* an exclusion set may hold (the ids are interchangeable).
Ids == {1, 2}
Excludable == {2}
\* An Err(e) item of the source stream (a ChangesetId is never 0).
SourceError == 0

\* What the collaborators do for one changeset: the Changeset Loader fails,
\* panics or returns a changeset with `parents` parents; the Hook Engine
\* succeeds or fails.
Stubs ==
    { [load |-> "ok", parents |-> 1, hooks |-> "ok"],
      [load |-> "ok", parents |-> 2, hooks |-> "ok"],
      [load |-> "ok", parents |-> 1, hooks |-> "fail"],
      [load |-> "fail", parents |-> 1, hooks |-> "ok"],
      [load |-> "panic", parents |-> 1, hooks |-> "ok"] }

SeqsUpTo(S, n) == UNION {[1..k -> S] : k \in 0..n}

VARIABLES
    mode,            \* "changesets" (run_changesets) or "limit" (run_with_limit)
    src,             \* the items of the source stream, in order
    repo,            \* per ChangesetId of the source, what the collaborators do for it
    excludes,        \* Tailer.excludes
    exclude_merges,  \* Tailer.exclude_merges
    concurrency,     \* Tailer.concurrency
    log_interval,    \* Tailer.log_interval
    bookmark,        \* what get_bonsai_bookmark returned: "unresolved", "some", "none", "err"
    limit,           \* the argument of run_with_limit
    flat,            \* try_flatten_stream: "first" (future), "second" (stream), "empty"
    remaining,       \* Take.remaining
    cursor,          \* number of items the source has yielded
    is_done,         \* Fuse.is_done of the stream under `buffered`
    count,           \* the progress counter of run_on_stream
    window,          \* positions held by `buffered`, oldest first
    fut,             \* per position, its map future: "none", "new", "joining", "ready", "out"
    task,            \* per position, its spawned task: "none", "load", "hooks", "done"
    result,          \* per position, what its task returned ("none" until then)
    readyq,          \* ready-to-run queue of the window's futures
    output,          \* the items the result stream has yielded
    progress_log,    \* "Starting hooks for ..." lines
    skip_log,        \* per position, number of "Skipped merge commit" lines
    load_calls,      \* per position, number of Changeset Loader calls
    hook_calls,      \* per position, number of Hook Engine calls
    pollpc,          \* the poll of the result stream: "idle", "repoll", "drain", "done", "panicked"
    consumer         \* "pulling" or "stopped"

config == <<mode, src, repo, excludes, exclude_merges, concurrency, log_interval,
            bookmark, limit>>
source == <<remaining, cursor, is_done, count, progress_log>>
tasks == <<task, result, skip_log, load_calls, hook_calls>>
vars == <<config, source, tasks, flat, window, fut, readyq, output, pollpc, consumer>>

Pos == 1..Len(src)

----
\* A filter that lets every changeset through.
SurvivesAlways(cs_id) == TRUE

\* try_filter: an item survives when it is not in the exclusion set.
Survives(cs_id) == cs_id \notin excludes

\* BonsaiChangeset::is_merge: more than one parent.
is_merge(cs) == cs.parents > 1

\* A merge policy that ignores exclude_merges.
MergeSkippedAlways(cs) == is_merge(cs)

\* A merge policy that never skips.
MergeSkippedNever(cs) == FALSE

\* The merge-skip policy of run_hooks_for_changeset.
MergeSkipped(cs) == exclude_merges /\ is_merge(cs)

\* A join that swallows the JoinError of the task.
JoinFlattenDropsPanic(r) == IF r = "panicked" THEN "skip" ELSE r

\* `.await??` on the JoinHandle: a JoinError (panic, cancellation) becomes an
\* error, everything else is the task's own result.
JoinFlatten(r) == IF r = "panicked" THEN "err_join" ELSE r

\* The output of the map future of position p.
FutureOutput(p, res) ==
    IF src[p] = SourceError THEN "err_source" ELSE JoinFlatten(res[p])

\* A result stream that drops the errors of its source.
TryFilterMapDropsErrors(v) == v \notin {"skip", "err_source"}

\* try_filter_map: Ok(None) is dropped, everything else is yielded.
TryFilterMap(v) == v # "skip"

\* A window one slot too large.
WindowFullOffByOne(w) == Len(w) > concurrency

\* `buffered`: the window is full.
WindowFull(w) == Len(w) >= concurrency

\* A window that yields outputs in completion order.
AnyOutgoing(p, w) == TRUE

\* FuturesOrdered: only the oldest slot of the window may be yielded.
IsNextOutgoing(p, w) == p = Head(w)

\* A traversal that is not truncated.
TakeNeverExhausted(rem) == FALSE

\* Take: the limit is reached.
TakeExhausted(rem) == mode = "limit" /\ rem = 0

Item(p, v) == [pos |-> p, cs_id |-> src[p], kind |-> v]

----
\* inspect_ok: the progress line of a surviving changeset, when it is due.
\* (count % log_interval panics when log_interval = 0: see FillLoop.)
InspectOk(lg, cnt, cs_id) ==
    IF cnt % log_interval = 0
    THEN Append(lg, [cs_id |-> cs_id, started |-> cnt])
    ELSE lg

\* A counter that is never advanced.
IncrementNever(cnt) == cnt

\* `count += 1` at the end of inspect_ok.
Increment(cnt) == cnt + 1

\* The `while` loop at the head of Buffered::poll_next: while the window is
\* not full, poll the stream under it (take, try_filter, inspect_ok, map) and
\* push the future it yields.  f.budget is the number of polls the source
\* answers before it is Pending (a list is never Pending).
RECURSIVE FillLoop(_)
FillLoop(f) ==
    IF WindowFull(f.window) \/ f.is_done
    THEN f
    ELSE IF TakeExhausted(f.remaining)
    THEN [f EXCEPT !.is_done = TRUE]
    ELSE IF f.budget = 0
    THEN f
    ELSE IF f.cursor >= Len(src)
    THEN [f EXCEPT !.is_done = TRUE, !.remaining = 0]
    ELSE
        LET p == f.cursor + 1
            g == [f EXCEPT !.cursor = p,
                           !.remaining = IF mode = "limit" THEN @ - 1 ELSE @,
                           !.budget = @ - 1]
            pushed == [g EXCEPT !.window = Append(@, p), !.readyq = Append(@, p)]
        IN  IF src[p] = SourceError
            THEN FillLoop(pushed)
            ELSE IF ~Survives(src[p])
            THEN FillLoop(g)
            ELSE IF log_interval = 0
            THEN [g EXCEPT !.panicked = TRUE]
            ELSE FillLoop([pushed EXCEPT
                              !.log = InspectOk(@, g.count, src[p]),
                              !.count = Increment(@)])

\* The budgets a poll may meet: a list always answers, a traversal may be
\* Pending at any item.
Budgets == IF mode = "limit" THEN 0..(Len(src) - cursor + 1) ELSE {Len(src) + 1}

\* The futures pushed by a fill are new: they have not been polled yet.
Pushed(w) ==
    [q \in DOMAIN fut |->
        IF q \in {w[i] : i \in 1..Len(w)} /\ fut[q] = "none" THEN "new" ELSE fut[q]]

\* A result stream that yields every item twice.
EmitTwice(out, it) == Append(Append(out, it), it)

\* The result stream yields the item `it`.
Emit(out, it) == Append(out, it)

\* A result stream that ends at its first error.
AfterYieldStopsAtError(v) ==
    IF v \in {"err_source", "err_join", "err_load", "err_hooks"} THEN "done"
    ELSE IF TryFilterMap(v) THEN "idle" ELSE "repoll"

\* What the poll does after the result stream yielded (or dropped) an item:
\* try_filter_map polls again after a dropped Ok(None), else the poll returns.
AfterYield(v) == IF TryFilterMap(v) THEN "idle" ELSE "repoll"

\* The oldest slot p leaves the window w with output v.
Yield(p, w, v) ==
    /\ window' = Tail(w)
    /\ fut' = [Pushed(w) EXCEPT ![p] = "out"]
    /\ output' = IF TryFilterMap(v) THEN Emit(output, Item(p, v)) ELSE output
    /\ pollpc' = AfterYield(v)

\* A pipeline that is driven whether or not the consumer polls it.
DrivenAlways == TRUE

\* The result stream is lazy: it is polled only while its consumer pulls.
ConsumerPolls == consumer = "pulling"

\* Buffered::poll_next up to the first look at the queue of outputs: fill the
\* window, then yield the oldest slot if its output is already queued.
PollNext ==
    /\ flat = "second"
    /\ \/ pollpc = "idle" /\ ConsumerPolls
       \/ pollpc = "repoll"
    /\ \E b \in Budgets :
        LET f == FillLoop([cursor |-> cursor, remaining |-> remaining,
                           is_done |-> is_done, count |-> count,
                           window |-> window, readyq |-> readyq,
                           log |-> progress_log, panicked |-> FALSE,
                           budget |-> b])
        IN  /\ cursor' = f.cursor
            /\ remaining' = f.remaining
            /\ is_done' = f.is_done
            /\ count' = f.count
            /\ progress_log' = f.log
            /\ readyq' = f.readyq
            /\ IF f.panicked
               THEN /\ pollpc' = "panicked"
                    /\ window' = f.window
                    /\ fut' = Pushed(f.window)
                    /\ UNCHANGED output
               ELSE IF f.window # <<>> /\ fut[Head(f.window)] = "ready"
               THEN Yield(Head(f.window), f.window,
                          FutureOutput(Head(f.window), result))
               ELSE /\ pollpc' = "drain"
                    /\ window' = f.window
                    /\ fut' = Pushed(f.window)
                    /\ UNCHANGED output
    /\ UNCHANGED <<config, tasks, flat, consumer>>

\* The output of the future of position p is there: it is yielded when p is
\* the oldest slot, and queued otherwise.
Complete(p, v) ==
    IF IsNextOutgoing(p, window)
    THEN Yield(p, window, v)
    ELSE /\ fut' = [fut EXCEPT ![p] = "ready"]
         /\ UNCHANGED <<window, output, pollpc>>

\* The first poll of the map future of a changeset: task::spawn, then the
\* JoinHandle is awaited.
Spawn(p) ==
    /\ fut' = [fut EXCEPT ![p] = "joining"]
    /\ task' = [task EXCEPT ![p] = "load"]
    /\ UNCHANGED <<window, output, pollpc>>

\* FuturesOrdered::poll_next, one future of the ready-to-run queue per step.
DrainPoll ==
    /\ pollpc = "drain"
    /\ readyq # <<>>
    /\ LET p == Head(readyq)
       IN  /\ readyq' = Tail(readyq)
           /\ IF fut[p] = "new" /\ src[p] # SourceError
              THEN Spawn(p)
              ELSE Complete(p, FutureOutput(p, result)) /\ UNCHANGED task
    /\ UNCHANGED <<config, source, result, skip_log, load_calls, hook_calls, flat,
                   consumer>>

\* A window that ends the stream as soon as it is empty.
DrainPendingEndsOnEmpty ==
    /\ pollpc = "drain"
    /\ readyq = <<>>
    /\ pollpc' = IF window = <<>> THEN "done" ELSE "idle"
    /\ UNCHANGED <<config, source, tasks, flat, window, fut, readyq, output, consumer>>

\* No future is ready to run: the stream ends when the window is empty and
\* the source is done, and the poll is Pending otherwise.
DrainPending ==
    /\ pollpc = "drain"
    /\ readyq = <<>>
    /\ pollpc' = IF window = <<>> /\ is_done THEN "done" ELSE "idle"
    /\ UNCHANGED <<config, source, tasks, flat, window, fut, readyq, output, consumer>>

----
\* The task of position p returns r: its JoinHandle wakes the map future.
Finish(p, r) ==
    /\ task' = [task EXCEPT ![p] = "done"]
    /\ result' = [result EXCEPT ![p] = r]
    /\ readyq' = Append(readyq, p)

\* A loader that is called again after a failure.
TaskLoadRetries(p) ==
    /\ task[p] = "load"
    /\ load_calls' = [load_calls EXCEPT ![p] = @ + 1]
    /\ IF repo[src[p]].load = "panic"
       THEN Finish(p, "panicked") /\ UNCHANGED skip_log
       ELSE IF repo[src[p]].load = "fail"
       THEN IF load_calls[p] = 0
            THEN UNCHANGED <<task, result, readyq, skip_log>>
            ELSE Finish(p, "err_load") /\ UNCHANGED skip_log
       ELSE IF MergeSkipped(repo[src[p]])
       THEN /\ skip_log' = [skip_log EXCEPT ![p] = @ + 1]
            /\ Finish(p, "skip")
       ELSE /\ task' = [task EXCEPT ![p] = "hooks"]
            /\ UNCHANGED <<result, readyq, skip_log>>
    /\ UNCHANGED <<config, source, hook_calls, flat, window, fut, output, pollpc,
                   consumer>>

\* run_hooks_for_changeset up to the hook engine: load the changeset, then
\* apply the merge-skip policy.
TaskLoad(p) ==
    /\ task[p] = "load"
    /\ load_calls' = [load_calls EXCEPT ![p] = @ + 1]
    /\ IF repo[src[p]].load = "panic"
       THEN Finish(p, "panicked") /\ UNCHANGED skip_log
       ELSE IF repo[src[p]].load = "fail"
       THEN Finish(p, "err_load") /\ UNCHANGED skip_log
       ELSE IF MergeSkipped(repo[src[p]])
       THEN /\ skip_log' = [skip_log EXCEPT ![p] = @ + 1]
            /\ Finish(p, "skip")
       ELSE /\ task' = [task EXCEPT ![p] = "hooks"]
            /\ UNCHANGED <<result, readyq, skip_log>>
    /\ UNCHANGED <<config, source, hook_calls, flat, window, fut, output, pollpc,
                   consumer>>

\* run_hooks_for_changeset from the hook engine on.
TaskHooks(p) ==
    /\ task[p] = "hooks"
    /\ hook_calls' = [hook_calls EXCEPT ![p] = @ + 1]
    /\ Finish(p, IF repo[src[p]].hooks = "ok" THEN "instance" ELSE "err_hooks")
    /\ UNCHANGED <<config, source, skip_log, load_calls, flat, window, fut, output,
                   pollpc, consumer>>

----
\* run_with_limit: the first poll resolves the bookmark (r is the answer of
\* get_bonsai_bookmark).  A head gives the pipeline over the truncated
\* traversal, which is polled at once; no head gives the NoSuchBookmark
\* error, a failed lookup its own error.
BookmarkError(r) == IF r = "none" THEN "NoSuchBookmark" ELSE "err_bookmark"

\* A lookup that takes a missing bookmark for a head.
HasHeadUnlessError(r) == r # "err"

\* `.await?.ok_or_else(..)?`: only Ok(Some(head)) goes on to the traversal.
HasHead(r) == r = "some"

ResolveBookmark ==
    /\ flat = "first"
    /\ pollpc = "idle"
    /\ consumer = "pulling"
    /\ \E r \in {"some", "none", "err"} :
        /\ bookmark' = r
        /\ IF HasHead(r)
           THEN /\ flat' = "second"
                /\ pollpc' = "repoll"
                /\ UNCHANGED output
           ELSE /\ flat' = "empty"
                /\ output' = Emit(output,
                       [pos |-> 0, cs_id |-> 0, kind |-> BookmarkError(r)])
                /\ UNCHANGED pollpc
    /\ UNCHANGED <<mode, src, repo, excludes, exclude_merges, concurrency,
                   log_interval, limit, source, tasks, window, fut, readyq, consumer>>

\* try_flatten_stream after the error of the future: the stream ends.
PollEmpty ==
    /\ flat = "empty"
    /\ pollpc = "idle"
    /\ consumer = "pulling"
    /\ pollpc' = "done"
    /\ UNCHANGED <<config, source, tasks, flat, window, fut, readyq, output, consumer>>

\* The consumer stops polling the result stream (between two polls).
ConsumerStop ==
    /\ consumer = "pulling"
    /\ pollpc = "idle"
    /\ consumer' = "stopped"
    /\ UNCHANGED <<config, source, tasks, flat, window, fut, readyq, output, pollpc>>

----
InitConfig ==
    /\ excludes \in SUBSET Excludable
    /\ exclude_merges \in BOOLEAN
    /\ concurrency \in 0..MaxConc
    /\ log_interval \in LogIntervals

InitPipeline ==
    /\ cursor = 0
    /\ is_done = FALSE
    /\ count = 0
    /\ window = <<>>
    /\ fut = [p \in Pos |-> "none"]
    /\ task = [p \in Pos |-> "none"]
    /\ result = [p \in Pos |-> "none"]
    /\ readyq = <<>>
    /\ output = <<>>
    /\ progress_log = <<>>
    /\ skip_log = [p \in Pos |-> 0]
    /\ load_calls = [p \in Pos |-> 0]
    /\ hook_calls = [p \in Pos |-> 0]
    /\ pollpc = "idle"
    /\ consumer = "pulling"

\* run_changesets(changesets): every item of the source is Ok.
Init ==
    /\ InitConfig
    /\ mode = "changesets"
    /\ src \in SeqsUpTo(Ids, MaxLen)
    /\ repo \in [{src[p] : p \in Pos} -> Stubs]
    /\ bookmark = "some"
    /\ limit = 0
    /\ remaining = 0
    /\ flat = "second"
    /\ InitPipeline

\* What the collaborators do for a changeset of a traversal: the load and the
\* hooks succeed, the changeset is a merge, or the load fails.
TraversalStubs == {s \in Stubs : s.load # "panic" /\ s.hooks = "ok"}

\* The ancestor traversals of the head: position p holds changeset p, or an
\* error of the traversal.
Traversals ==
    UNION {{t \in [1..k -> (1..k) \cup {SourceError}] :
              \A p \in 1..k : t[p] \in {p, SourceError}} : k \in 0..MaxLen}

\* run_with_limit(limit): the source is the ancestor traversal of the head.
InitLimit ==
    /\ excludes \in SUBSET Excludable
    /\ exclude_merges \in BOOLEAN
    /\ concurrency \in 0..MaxConc
    /\ log_interval = 1
    /\ mode = "limit"
    /\ src \in Traversals
    /\ repo \in [{src[p] : p \in Pos} \ {SourceError} -> TraversalStubs]
    /\ bookmark = "unresolved"
    /\ limit \in 0..MaxLen
    /\ remaining = limit
    /\ flat = "first"
    /\ InitPipeline

\* The steps of run_on_stream and of the tasks it spawns.
Next ==
    \/ PollNext
    \/ DrainPoll
    \/ DrainPending
    \/ \E p \in Pos : TaskLoad(p)
    \/ \E p \in Pos : TaskHooks(p)
    \/ ConsumerStop

NextLimit ==
    \/ ResolveBookmark
    \/ PollEmpty
    \/ Next

\* run_changesets.
Spec == Init /\ [][Next]_vars

\* run_with_limit.
SpecLimit == InitLimit /\ [][NextLimit]_vars

\* The worker pool runs every spawned task to its end.
TasksFair ==
    \A p \in 1..MaxLen :
        /\ WF_vars(p \in Pos /\ TaskLoad(p))
        /\ WF_vars(p \in Pos /\ TaskHooks(p))

\* run_changesets on a worker pool that keeps running.
SpecTasks == Spec /\ TasksFair

\* A poll that has work to do is carried out: the consumer's pull, the
\* re-poll after a dropped item, and the futures woken by their tasks.
PollsFair ==
    /\ WF_vars(PollNext)
    /\ WF_vars(DrainPoll)
    /\ WF_vars(DrainPending)

\* run_changesets with a consumer that polls whenever it is pulling, on a
\* worker pool that keeps running.
SpecLive == Spec /\ TasksFair /\ PollsFair

----
(***************************************************************************)
(* What the properties below are stated with: the outcome each position    *)
(* of the source has on its own, from the collaborators' behaviour alone.  *)
(***************************************************************************)
Min(a, b) == IF a < b THEN a ELSE b

IsPrefix(a, b) == Len(a) <= Len(b) /\ \A i \in 1..Len(a) : a[i] = b[i]

\* The items of the source the pipeline is handed.
Handed == IF mode = "limit" THEN Min(limit, Len(src)) ELSE Len(src)

Excluded(p) == src[p] # SourceError /\ src[p] \in excludes

IsChangeset(p) == src[p] # SourceError

\* What evaluating position p alone gives.
Outcome(p) ==
    IF src[p] = SourceError THEN "err_source"
    ELSE LET s == repo[src[p]]
         IN  IF s.load = "panic" THEN "err_join"
             ELSE IF s.load = "fail" THEN "err_load"
             ELSE IF exclude_merges /\ is_merge(s) THEN "skip"
             ELSE IF s.hooks = "fail" THEN "err_hooks"
             ELSE "instance"

Errors == {"err_source", "err_join", "err_load", "err_hooks"}

\* Position p is owed an output item: it is not excluded and not merge-skipped.
Kept(p) == ~Excluded(p) /\ Outcome(p) # "skip"

KeptSeq == SelectSeq([p \in 1..Handed |-> p], Kept)

\* The output of the whole run, in input order.
Expected ==
    [i \in 1..Len(KeptSeq) |->
        [pos |-> KeptSeq[i], cs_id |-> src[KeptSeq[i]], kind |-> Outcome(KeptSeq[i])]]

Running == {p \in Pos : task[p] \in {"load", "hooks"}}

ItemsOf(p) == {i \in 1..Len(output) : output[i].pos = p}

Instances == {i \in 1..Len(output) : output[i].kind = "instance"}

----
\* C1: the output is emitted in input order, not completion order: at every
\* moment the items emitted are the first outcomes, in input order, of the
\* positions that are neither excluded nor merge-skipped, and at the end of
\* the stream they are all of them, whatever the concurrency and whichever
\* task finishes first.
C1_OutputInInputOrder ==
    /\ IsPrefix(output, Expected)
    /\ pollpc = "done" => output = Expected

\* A later slot has finished and is queued behind an earlier one that is
\* still running, after a first item was emitted.
C1_Witness ==
    /\ output # <<>>
    /\ \E i, j \in Pos :
        /\ i < j
        /\ Kept(i) /\ Kept(j)
        /\ task[i] \in {"load", "hooks"}
        /\ fut[j] = "ready"

\* C2: at most `concurrency` evaluations run at the same time.
C2_AtMostKRunning == Cardinality(Running) <= concurrency

C2_Witness ==
    /\ concurrency = MaxConc
    /\ Cardinality(Running) = concurrency
    /\ cursor < Len(src)

\* C3: when the bookmark resolves to nothing, the result stream is the single
\* NoSuchBookmark error: nothing is pulled from the traversal, no task is
\* spawned, and the loader and the hook engine are never called, for every
\* limit.
C3_NoSuchBookmarkFirst ==
    bookmark = "none" =>
        /\ output = <<[pos |-> 0, cs_id |-> 0, kind |-> "NoSuchBookmark"]>>
        /\ cursor = 0
        /\ window = <<>>
        /\ \A p \in Pos :
            /\ task[p] = "none"
            /\ load_calls[p] = 0
            /\ hook_calls[p] = 0

C3_Witness ==
    /\ bookmark = "none"
    /\ pollpc = "done"
    /\ limit >= 2
    /\ Len(src) >= 2
    /\ concurrency >= 1

\* C4: an excluded changeset is dropped before counting and scheduling: it is
\* never loaded, never given to the hook engine, never holds a slot of the
\* window, never produces an output item, and the progress counter counts
\* only the changesets pulled that are not excluded.
C4_ExcludedNeverReachesEvaluation ==
    /\ \A p \in Pos :
        Excluded(p) =>
            /\ load_calls[p] = 0
            /\ hook_calls[p] = 0
            /\ task[p] = "none"
            /\ fut[p] = "none"
            /\ \A i \in 1..Len(window) : window[i] # p
            /\ ItemsOf(p) = {}
    /\ count + (IF pollpc = "panicked" THEN 1 ELSE 0)
           = Cardinality({p \in 1..cursor : IsChangeset(p) /\ ~Excluded(p)})

\* An excluded changeset was passed over and the run went on to its end.
C4_Witness ==
    /\ pollpc = "done"
    /\ \E p, q \in Pos : p < q /\ Excluded(p) /\ ItemsOf(q) # {}

\* C5: a loaded changeset with more than one parent: with exclude_merges it
\* gives no output item, one skip line once its task is over, and no call of
\* the hook engine; without exclude_merges it is given to the hook engine
\* and gives its output item.
C5_MergePolicy ==
    \A p \in Pos :
        (IsChangeset(p) /\ repo[src[p]].load = "ok" /\ repo[src[p]].parents > 1) =>
            IF exclude_merges
            THEN /\ ItemsOf(p) = {}
                 /\ hook_calls[p] = 0
                 /\ skip_log[p] = (IF task[p] = "done" THEN 1 ELSE 0)
            ELSE /\ skip_log[p] = 0
                 /\ hook_calls[p] = (IF task[p] = "done" THEN 1 ELSE 0)
                 /\ fut[p] = "out" =>
                        /\ Cardinality(ItemsOf(p)) = 1
                        /\ \A i \in ItemsOf(p) : output[i].kind = "instance"

\* A merge was skipped and left the window, between two emitted items.
C5_Witness ==
    /\ exclude_merges
    /\ \E p, q, r \in Pos :
        /\ p < q /\ q < r
        /\ repo[src[q]].parents > 1
        /\ skip_log[q] = 1
        /\ fut[q] = "out"
        /\ ItemsOf(p) # {} /\ ItemsOf(r) # {}

NumChangesets == Cardinality({p \in 1..Handed : IsChangeset(p)})

NumExcluded == Cardinality({p \in 1..Handed : Excluded(p)})

NumMergeSkipped ==
    Cardinality({p \in 1..Handed : ~Excluded(p) /\ Outcome(p) = "skip"})

\* C6: every instance emitted carries the ChangesetId of an input position
\* that is neither in the exclusion set nor merge-skipped, and the number
\* of instances emitted so far is at most the number of input changesets
\* minus the excluded ones minus the merge-skipped ones.
C6_InstancesOnlyForKept ==
    /\ \A i \in Instances :
        LET p == output[i].pos
        IN  /\ p \in 1..Handed
            /\ output[i].cs_id = src[p]
            /\ src[p] # SourceError
            /\ src[p] \notin excludes
            /\ ~(exclude_merges /\ is_merge(repo[src[p]]))
            /\ skip_log[p] = 0
    /\ Cardinality(Instances) <= NumChangesets - NumExcluded - NumMergeSkipped

\* A run with an excluded changeset, a skipped merge and an instance.
C6_Witness ==
    /\ pollpc = "done"
    /\ NumExcluded >= 1
    /\ NumMergeSkipped >= 1
    /\ Cardinality(Instances) >= 1
    /\ Cardinality(Instances) = NumChangesets - NumExcluded - NumMergeSkipped

\* C7 as claimed: no two instances emitted in one run carry the same
\* ChangesetId, for any sequence given to run_changesets.
C7_NoTwoInstancesShareAnId ==
    \A i, j \in Instances : i # j => output[i].cs_id # output[j].cs_id

Occurrences(c) == {p \in Pos : src[p] = c}

\* C7 as amended: an input position gives at most one instance, so the
\* instances carrying a ChangesetId are at most as many as its occurrences
\* in the input, and no two instances carry the same ChangesetId when the
\* input holds no ChangesetId twice.
C7_OneInstancePerPosition ==
    /\ \A i, j \in Instances : i # j => output[i].pos # output[j].pos
    /\ \A c \in Ids :
        Cardinality({i \in Instances : output[i].cs_id = c})
            <= Cardinality(Occurrences(c))
    /\ (\A c \in Ids : Cardinality(Occurrences(c)) <= 1)
           => C7_NoTwoInstancesShareAnId

\* The input holds a ChangesetId twice and both positions gave an instance.
C7_Witness ==
    /\ pollpc = "done"
    /\ \E i, j \in Instances : i # j /\ output[i].cs_id = output[j].cs_id

----
\* C8: a load failure or a hook-engine failure is terminal for its slot
\* only: it is emitted as the error of that position, in input order, every
\* item emitted is the outcome its position has on its own, and the stream
\* does not end before every other surviving position has been evaluated
\* and has given its own outcome.
C8_ErrorsAreIsolated ==
    /\ \A i \in 1..Len(output) :
        /\ output[i].pos \in Pos
        /\ output[i].kind = Outcome(output[i].pos)
    /\ \A i, j \in 1..Len(output) : i < j => output[i].pos < output[j].pos
    /\ \A p \in Pos :
        (~Excluded(p) /\ Outcome(p) \in {"err_load", "err_hooks"} /\ fut[p] = "out")
            => Cardinality(ItemsOf(p)) = 1
    /\ pollpc = "done" =>
        \A p \in Pos :
            ~Excluded(p) =>
                /\ task[p] = "done"
                /\ load_calls[p] = 1
                /\ fut[p] = "out"
                /\ Cardinality(ItemsOf(p)) = (IF Outcome(p) = "skip" THEN 0 ELSE 1)

\* The stream ended with an error between two instances.
C8_Witness ==
    /\ pollpc = "done"
    /\ \E i, j, k \in 1..Len(output) :
        /\ i < j /\ j < k
        /\ output[i].kind = "instance"
        /\ output[j].kind \in {"err_load", "err_hooks"}
        /\ output[k].kind = "instance"

\* C9: a task that panics (or is cancelled) gives exactly one error item at
\* the position of its slot: it is not dropped, it is not a skip, and the
\* stream goes on to give every sibling slot its own outcome.
C9_PanicBecomesOneError ==
    \A p \in Pos :
        result[p] = "panicked" =>
            /\ skip_log[p] = 0
            /\ \A i \in ItemsOf(p) : output[i].kind = "err_join"
            /\ Cardinality(ItemsOf(p)) = (IF fut[p] = "out" THEN 1 ELSE 0)
            /\ \A q \in Pos : \A i \in ItemsOf(q) :
                /\ output[i].kind = Outcome(q)
                /\ \A j \in ItemsOf(p) : (q < p) = (i < j)
            /\ pollpc = "done" =>
                /\ fut[p] = "out"
                /\ \A q \in Pos :
                    Kept(q) => Cardinality(ItemsOf(q)) = 1

\* The stream ended with the error of a panicked task between two instances.
C9_Witness ==
    /\ pollpc = "done"
    /\ \E i, j, k \in 1..Len(output) :
        /\ i < j /\ j < k
        /\ output[i].kind = "instance"
        /\ output[j].kind = "err_join"
        /\ result[output[j].pos] = "panicked"
        /\ output[k].kind = "instance"

----
\* C10: with a resolved bookmark the pipeline is handed the first
\* min(limit, length) items of the traversal, in traversal order: nothing
\* beyond them is pulled, loaded or evaluated, the items are pulled in
\* order, and at the end of the stream the output is the outcomes of those
\* items in that order (all of them when nothing is skipped, excluded or
\* fails).
C10_LimitTruncatesTraversal ==
    bookmark = "some" =>
        /\ cursor <= Min(limit, Len(src))
        /\ \A p \in Pos :
            p > limit =>
                /\ fut[p] = "none"
                /\ task[p] = "none"
                /\ load_calls[p] = 0
                /\ hook_calls[p] = 0
        /\ \A i, j \in 1..Len(window) : i < j => window[i] < window[j]
        /\ \A i, j \in 1..Len(output) : i < j => output[i].pos < output[j].pos
        /\ pollpc = "done" =>
            /\ cursor = Min(limit, Len(src))
            /\ output = Expected
            /\ (\A p \in 1..Min(limit, Len(src)) : Outcome(p) = "instance" /\ ~Excluded(p))
                   => output = [p \in 1..Min(limit, Len(src)) |->
                                   [pos |-> p, cs_id |-> src[p], kind |-> "instance"]]

\* The traversal is longer than the limit and the stream ended with the
\* instances of its first `limit` items.
C10_Witness ==
    /\ bookmark = "some"
    /\ pollpc = "done"
    /\ limit = 2
    /\ Len(src) > limit
    /\ Len(output) = 2
    /\ \A i \in 1..2 : output[i].pos = i /\ output[i].kind = "instance"

----
\* C11: once the consumer has stopped pulling, nothing more is pulled from
\* the source, no task is started and nothing is emitted, while the tasks
\* already spawned are not interrupted: each goes on step by step and ends.
C11_StopFreezesScheduler ==
    /\ [][consumer = "stopped" =>
            /\ consumer' = "stopped"
            /\ cursor' = cursor
            /\ count' = count
            /\ window' = window
            /\ output' = output
            /\ \A p \in Pos :
                /\ task[p] = "none" => task'[p] = "none"
                /\ task[p] = "load" => task'[p] \in {"load", "hooks", "done"}
                /\ task[p] = "hooks" => task'[p] \in {"hooks", "done"}
                /\ task[p] = "done" => task'[p] = "done"]_vars
    /\ \A p \in 1..MaxLen :
        (consumer = "stopped" /\ p \in Pos /\ task[p] \in {"load", "hooks"})
            ~> (p \in Pos /\ task[p] = "done")

\* The consumer has stopped with items left in the source and a free slot in
\* the window, and a task spawned before the stop has ended uncollected.
C11_Witness ==
    /\ consumer = "stopped"
    /\ cursor < Len(src)
    /\ Len(window) < concurrency
    /\ \E p \in Pos : task[p] = "done" /\ fut[p] = "joining"

----
\* Surviving changesets the source has not yielded yet.
Unscheduled ==
    {p \in (cursor + 1)..Handed : IsChangeset(p) /\ Survives(src[p])}

\* The last poll returned Pending with nothing left to wake it: the window
\* is full, no completion is unseen, and the consumer is pulling.
PollSettled ==
    /\ pollpc = "idle"
    /\ consumer = "pulling"
    /\ readyq = <<>>
    /\ WindowFull(window)

InWindow(p, w) == \E i \in 1..Len(w) : w[i] = p

----
\* Items that went past the exclusion filter and into the scheduler, and
\* whose slot has not been released.
Unreleased == {p \in 1..cursor : ~Excluded(p) /\ fut[p] # "out"}

Released == {p \in Pos : fut[p] = "out"}

TasksCreated == {p \in Pos : task[p] # "none"}

\* C13: the items pulled past the exclusion filter whose slot is not yet
\* released (emitted or dropped as a merge skip) are at most `concurrency`,
\* they are the window, and the tasks ever created are at most the slots
\* released plus `concurrency`.
C13_WindowBounded ==
    /\ Cardinality(Unreleased) <= concurrency
    /\ Len(window) <= concurrency
    /\ \A p \in Pos : InWindow(p, window) => p \in Unreleased
    /\ Cardinality(TasksCreated) <= Cardinality(Released) + concurrency

\* The window is full again after a slot was released: both bounds are met.
C13_Witness ==
    /\ concurrency = 2
    /\ Cardinality(Unreleased) = concurrency
    /\ Released # {}
    /\ Cardinality(TasksCreated) = Cardinality(Released) + concurrency

----
\* k is a multiple of n (0 is the only multiple of 0).
IsMultiple(k, n) == \E j \in 0..k : k = j * n

\* The surviving changesets pulled so far, in traversal order.
Started == SelectSeq([p \in 1..cursor |-> p],
                     LAMBDA p : IsChangeset(p) /\ ~Excluded(p))

LineDue(line) == IsMultiple(line.started, log_interval)

\* The progress lines owed for the changesets started so far.
ProgressLines ==
    SelectSeq([i \in 1..Len(Started) |->
                  [cs_id |-> src[Started[i]], started |-> i - 1]],
              LineDue)

\* C14: the counter is the number of successful items pulled that passed the
\* exclusion filter (merge-skipped and failing ones included, excluded ones
\* and source errors not), so it starts at 0 and never decreases; and the
\* progress lines are those of the surviving changesets whose counter value
\* (the number started before them) is a multiple of log_interval, each
\* naming its changeset and that number.
C14_CounterAndProgressLines ==
    /\ count = Len(Started)
    /\ progress_log = ProgressLines

----
\* The collaborators' behaviour for the changeset of position p.
StubOf(p) == repo[src[p]]

----
IsSourceError(p) == src[p] = SourceError

\* C16: an error item of the source passes through untouched: it advances
\* no counter, has no task and causes no loader or hook call; once pulled it
\* holds a slot like any item that passed the filter, and when its slot is
\* released it has been emitted once, as that same error, in input order
\* among the emitted items; the stream does not end with it, and goes on to
\* the outcomes of the items behind it.
C16_SourceErrorPassesThrough ==
    bookmark = "some" =>
        /\ count = Len(Started)
        /\ IsPrefix(output, Expected)
        /\ pollpc = "done" => output = Expected
        /\ \A p \in Pos :
            IsSourceError(p) =>
                /\ task[p] = "none"
                /\ result[p] = "none"
                /\ load_calls[p] = 0 /\ hook_calls[p] = 0 /\ skip_log[p] = 0
                /\ p <= cursor => fut[p] # "none"
                /\ \A i \in 1..Len(progress_log) : progress_log[i].cs_id # src[p]
                /\ fut[p] = "out" =>
                       /\ Cardinality(ItemsOf(p)) = 1
                       /\ \A i \in ItemsOf(p) : output[i] = Item(p, "err_source")
                /\ \A i \in ItemsOf(p) : fut[p] = "out"

\* The stream ended after an error item of the traversal that was emitted
\* between the instances of the changesets before and behind it.
C16_Witness ==
    /\ bookmark = "some"
    /\ pollpc = "done"
    /\ Len(output) = 3
    /\ output[1].kind = "instance"
    /\ output[2] = Item(2, "err_source")
    /\ output[3].kind = "instance"

----
\* The surviving changesets among the first p items of the source.
SurvivorsUpTo(p) == {q \in 1..p : IsChangeset(q) /\ ~Excluded(q)}

\* C17: the counter is written by the source side of the pipeline only, in
\* traversal order and before the fan-out: a step changes it only together
\* with the pull of the surviving changesets it counts, no step of a task
\* changes it, a task exists only for a changeset already counted, and the
\* tasks started so far are at most the counter value.
C17_CounterBeforeFanOut ==
    /\ [](/\ Cardinality(TasksCreated) <= count
          /\ \A p \in 1..MaxLen :
                (p \in Pos /\ (task[p] # "none" \/ fut[p] # "none")
                     /\ IsChangeset(p))
                    => count >= Cardinality(SurvivorsUpTo(p))
          /\ \A i, j \in 1..Len(progress_log) :
                i < j => progress_log[i].started < progress_log[j].started)
    /\ [][/\ count' >= count
          /\ count' # count =>
                /\ cursor' > cursor
                /\ count' - count
                       = Cardinality(SurvivorsUpTo(cursor') \ SurvivorsUpTo(cursor))
                /\ task' = task /\ result' = result
                /\ \A p \in Pos : task[p] = "none" => fut'[p] \in {"none", "new"}
          /\ (task' # task \/ result' # result) =>
                count' = count /\ progress_log' = progress_log]_vars

\* Two changesets were counted in one fill of the window, neither has a task
\* yet: the counter is ahead of the fan-out.
C17_Witness ==
    /\ count = 2
    /\ TasksCreated = {}
    /\ \E p, q \in Pos : p < q /\ fut[p] = "new" /\ fut[q] = "new"

----
\* C18: the progress reporter is purely observational: whatever the value of
\* log_interval, it never stops the pipeline, and the items emitted are
\* those that the input, the exclusion set and the collaborators determine
\* (Expected depends on nothing else): a prefix of them at every moment, all
\* of them, and no other item, at the end of the stream.
C18_ReporterIsObservational ==
    /\ pollpc # "panicked"
    /\ IsPrefix(output, Expected)
    /\ pollpc = "done" => output = Expected

----
ErrorItems == {i \in 1..Len(output) : output[i].kind \in Errors}

\* C19: for every finite list and every concurrency >= 1, when the tasks
\* complete and the consumer keeps pulling, the stream ends; and at the end
\* every position that passed the exclusion filter has been released with
\* exactly one of an instance, an error or a merge skip, so instances plus
\* errors emitted are the input items less the excluded and the
\* merge-skipped ones.
C19_StreamEndsNothingLost ==
    /\ (concurrency >= 1) ~> (consumer = "stopped" \/ pollpc = "done")
    /\ [](pollpc = "done" =>
            /\ \A p \in 1..MaxLen :
                (p \in Pos /\ ~Excluded(p)) =>
                    /\ fut[p] = "out"
                    /\ Cardinality(ItemsOf(p)) + skip_log[p] = 1
            /\ Cardinality(Instances) + Cardinality(ErrorItems)
                   = Len(src) - NumExcluded - NumMergeSkipped)

----
\* C20: with concurrency = 0 the scheduler never pulls an item of the list
\* and never starts a task, so the stream of run_changesets never yields an
\* item and never signals its end, whatever the list, the empty one
\* included: every poll is Pending.
C20_ZeroWindowNeverYields ==
    concurrency = 0 =>
        /\ cursor = 0
        /\ count = 0
        /\ ~is_done
        /\ window = <<>>
        /\ TasksCreated = {}
        /\ \A p \in Pos : fut[p] = "none" /\ load_calls[p] = 0 /\ hook_calls[p] = 0
        /\ output = <<>>
        /\ progress_log = <<>>
        /\ pollpc \in {"idle", "drain"}

\* A poll of the stream of the empty list with concurrency = 0 has gone
\* through its fill loop and is about to return Pending.
C20_Witness ==
    /\ concurrency = 0
    /\ src = <<>>
    /\ pollpc = "drain"
    /\ readyq = <<>>

====
